---- MODULE Spec2Model ----
(***************************************************************************)
(* VidFX: merge and edit orchestration (src/main.py, src/commands), the    *)
(* transition, filter and effect registries and compositors                *)
(* (src/transitions, src/filters, src/effects), the two stateful effects   *)
(* stop_motion and photo_movement, and the three_blocks transition.        *)
(*                                                                         *)
(* Strings are sequences of symbols.  A symbol is one character ("@", a    *)
(* digit, a letter, "-") or, in the name part of a binding, a whole word   *)
(* ("three_blocks", "crossfade") standing for its characters, none of      *)
(* which is "@" or a digit.  Python lists are sequences; the 0-based       *)
(* position j of a Python list is position j + 1 of the sequence.          *)
(* An optional value (None or a value) is <<>> or <<value>>.               *)
(***************************************************************************)
EXTENDS Integers, Sequences, FiniteSets, TLC

VARIABLES
    \* ---- merge (src/main.py:154-267) ----
    pc,                     \* position of merge in its body
    clips,                  \* clips, the list loaded from paths
    transitions,            \* the bindings of `transitions` read so far
    used_transition_slots,  \* validate_indexes' local list
    error,                  \* kind of the ValueError logged, "none" if none
    error_binding,          \* position of the binding the logged error
                            \* names, 0 if none
    transition_classes,     \* list of <<class, 0-based clip index>>
    applied,                \* iterations of the application loop completed
    concat_clip,            \* optional: result of concatenate_videoclips
    written,                \* optional: clip handed to write_videofile
    \* ---- filters and effects (src/filters, src/effects) ----
    fx_pc,                  \* which function of the two packages was called
    names,                  \* the list of names it was called with
    v_error,                \* optional: the ValueError of validate_*
    filter_instances,       \* apply_filters' closure variable
    f_in,                   \* optional: frame last given to apply_all
    f_out,                  \* optional: frame it returned
    effect_instances,       \* apply_effects' closure variable, each
                            \* instance with its nonlocal variables
    calls,                  \* calls of the per-frame function so far
    outs,                   \* the frames the calls returned, in order
    branches,               \* for a single effect: the branch each call took
    call_log,               \* last apply_all call: per effect, what it was
                            \* given and what it returned
    \* ---- three_blocks (src/transitions/three_blocks.py) ----
    tb_pc,                  \* life of one ThreeBlocks instance
    tb,                     \* optional: the instance (y1, y2, xs, frame_crops)
    target_reads,           \* timestamps transition_to.get_frame was called with
    clip_frames,            \* number of frames of the clip apply() was given
    tb_calls,               \* calls of the per-frame function so far
    tb_t,                   \* optional: timestamp of the last call
    tb_out,                 \* optional: what the last call returned and the
                            \* array get_frame gave it, as it is afterwards
    \* ---- edit (src/main.py:23-150) ----
    e_pc,                   \* position of edit in its body
    filter_list,            \* filters.split(",")
    effects_list,           \* effects.split(",")
    e_error,                \* the error logged before exit code 1
    filter_queue,           \* optional: what apply_filters returned
    effect_queue,           \* optional: what apply_effects returned
    processed_clip,         \* the transforms attached to the clip, in order
    e_written,              \* optional: clip handed to save_video
    \* ---- two effect pipelines (src/effects/__init__.py:32-52) ----
    iso_store,              \* the closure cells of all effect instances
    iso_names,              \* per apply_effects call: the names it was given
    iso_pipes,              \* per call: its effect_instances
    iso_calls,              \* per pipeline: calls of its apply_all so far
    iso_outs,               \* per pipeline: the frames the calls returned
    \* ---- one effect, two traversals (src/effects/stop_motion.py, ----
    \* ---- src/effects/photo_movement.py)                          ----
    ts_inst,                \* optional pair: the instance of each traversal
    ts_tA,                  \* the timestamps the first traversal passed
    ts_tB,                  \* optional: the last timestamp of the second
    ts_outs,                \* per traversal: the frames the calls returned
    ts_branches             \* per traversal: the branch each call took

mvars == <<pc, clips, transitions, used_transition_slots, error,
           error_binding, transition_classes, applied, concat_clip, written>>

fvars == <<fx_pc, names, v_error, filter_instances, f_in, f_out,
           effect_instances, calls, outs, branches, call_log>>

tvars == <<tb_pc, tb, target_reads, clip_frames, tb_calls, tb_t, tb_out>>

evars == <<e_pc, filter_list, effects_list, e_error, filter_queue,
           effect_queue, processed_clip, e_written>>

ivars == <<iso_store, iso_names, iso_pipes, iso_calls, iso_outs>>

svars == <<ts_inst, ts_tA, ts_tB, ts_outs, ts_branches>>

vars == <<mvars, fvars, tvars, evars, ivars, svars>>

\* ------------------------------------------------------------------------
\* Bounds of the model
\* ------------------------------------------------------------------------
MaxClips == 3       \* merge is run with 0..MaxClips paths
MaxBindings == 3    \* at most MaxBindings --transitions bindings are read
MaxNames == 3       \* filter and effect lists have at most MaxNames names
MaxCalls == 6       \* frames of a traversal
MaxParam == 3       \* remove_every in 1..MaxParam, duplicate_every in 0..MaxParam
MaxGrain == 1       \* film's random grain is one of 0..MaxGrain
MaxFrame == 1       \* apply_all of the filters is given frame 0..MaxFrame

\* ------------------------------------------------------------------------
\* Inputs: binding tokens
\* ------------------------------------------------------------------------
NameParts == {<<"three_blocks">>, <<"crossfade">>}
IdxChars == {"0", "1", "2", "3", "a", "-", "@"}
IdxParts == {<<>>} \cup {<<c>> : c \in IdxChars}
                   \cup {<<c, d>> : c \in IdxChars, d \in IdxChars}
\* name, name@, name@c, name@cd  (c, d may again be "@")
Tokens == NameParts \cup {n \o <<"@">> \o i : n \in NameParts, i \in IdxParts}

\* ------------------------------------------------------------------------
\* Python string primitives
\* ------------------------------------------------------------------------
DigitChars == {"0", "1", "2", "3", "4", "5", "6", "7", "8", "9"}

DigitVal(c) ==
    CASE c = "0" -> 0 [] c = "1" -> 1 [] c = "2" -> 2 [] c = "3" -> 3
      [] c = "4" -> 4 [] c = "5" -> 5 [] c = "6" -> 6 [] c = "7" -> 7
      [] c = "8" -> 8 [] c = "9" -> 9

\* "@" in s
HasAt(s) == \E i \in 1..Len(s) : s[i] = "@"

\* s.split("@"): the list of the parts between the separators
RECURSIVE split(_)
split(s) ==
    IF ~HasAt(s) THEN <<s>>
    ELSE LET i == CHOOSE i \in 1..Len(s) :
                    s[i] = "@" /\ \A j \in 1..(i - 1) : s[j] # "@"
         IN <<SubSeq(s, 1, i - 1)>> \o split(SubSeq(s, i + 1, Len(s)))

\* s.isdigit(): non-empty and every character a digit
isdigit(s) == Len(s) > 0 /\ \A i \in 1..Len(s) : s[i] \in DigitChars

\* int(s) for a string of digits: its decimal value (leading zeros allowed)
RECURSIVE int(_)
int(s) ==
    IF Len(s) = 0 THEN 0
    ELSE 10 * int(SubSeq(s, 1, Len(s) - 1)) + DigitVal(s[Len(s)])

\* x in list
InList(x, list) == \E i \in 1..Len(list) : list[i] = x

\* ------------------------------------------------------------------------
\* Transition registry (src/transitions/__init__.py)
\* ------------------------------------------------------------------------
TRANSITION_REGISTRY == {<<"three_blocks">>}

\* resolve_transition(name): TRUE when it returns the class, FALSE when it
\* raises ValueError ("Invalid transition")
resolve_transition_any(transition_name) == TRUE

resolve_transition(transition_name) == transition_name \in TRANSITION_REGISTRY

\* ------------------------------------------------------------------------
\* validate_indexes (src/main.py:289-328, src/commands/merge.py:137-176)
\* ------------------------------------------------------------------------
\* the bounds test of line 318
InBounds_upto(clip_position, max_length) ==
    1 <= clip_position /\ clip_position <= max_length

InBounds_fromzero(clip_position, max_length) ==
    0 <= clip_position /\ clip_position < max_length

InBounds(clip_position, max_length) ==
    1 <= clip_position /\ clip_position < max_length

\* the duplicate test of line 323
AlreadyUsed_never(clip_position, used) == FALSE

AlreadyUsed(clip_position, used) == InList(clip_position, used)

\* the numeric test of line 311
IsNumber(clip_position) == isdigit(clip_position)

\* One iteration of the loop of validate_indexes on binding `transition`
\* with the local list `used`: the kind of ValueError raised ("none" when
\* the iteration ends normally) and the list afterwards.
\*   "missing_clip_number"  line 303-305
\*   "unpack"               line 308: `_, clip_position = ...` with more
\*                          than two parts raises ValueError itself
\*   "not_a_number"         line 311-313
\*   "out_of_bounds"        line 318-320
\*   "already_used"         line 323-325
ValidateBinding(transition, used, max_length) ==
    IF ~HasAt(transition) \/ Len(split(transition)[2]) = 0
    THEN [raised |-> "missing_clip_number", used |-> used]
    ELSE IF Len(split(transition)) # 2
    THEN [raised |-> "unpack", used |-> used]
    ELSE LET clip_position == split(transition)[2] IN
         IF ~IsNumber(clip_position)
         THEN [raised |-> "not_a_number", used |-> used]
         ELSE IF ~InBounds(int(clip_position), max_length)
         THEN [raised |-> "out_of_bounds", used |-> used]
         ELSE IF AlreadyUsed(int(clip_position), used)
         THEN [raised |-> "already_used", used |-> used]
         ELSE [raised |-> "none", used |-> Append(used, int(clip_position))]

\* ------------------------------------------------------------------------
\* Clips
\* ------------------------------------------------------------------------
\* VideoFileClip(paths[i]): the clip of the i-th path, no effect applied
VideoFileClip(i) == [path |-> i, fx |-> <<>>]

\* clip.with_effects([tc(transition_to=target)]): a new clip, the old one
\* wrapped by one transition instance that holds a reference to target
with_effects(clip, tc, target) ==
    [path |-> clip.path, fx |-> Append(clip.fx, [tc |-> tc, transition_to |-> target])]

LoadedClips(n) == [i \in 1..n |-> VideoFileClip(i)]

\* ------------------------------------------------------------------------
\* merge (src/main.py:154-267, src/commands/merge.py:9-134)
\* ------------------------------------------------------------------------
InitMerge ==
    /\ pc = "start"
    /\ clips = <<>>
    /\ transitions = <<>>
    /\ used_transition_slots = <<>>
    /\ error = "none"
    /\ error_binding = 0
    /\ transition_classes = <<>>
    /\ applied = 0
    /\ concat_clip = <<>>
    /\ written = <<>>

\* line 206-208: --list-transitions logs the registry and exits with code 0
ListTransitions ==
    /\ UNCHANGED <<fvars, tvars, evars, ivars, svars>>
    /\ pc = "start"
    /\ pc' = "exit0"
    /\ UNCHANGED <<clips, transitions, used_transition_slots, error,
                   error_binding, transition_classes, applied, concat_clip, written>>

\* line 213: clips = [VideoFileClip(path) for path in paths]
LoadClips ==
    /\ UNCHANGED <<fvars, tvars, evars, ivars, svars>>
    /\ pc = "start"
    /\ \E n \in 0..MaxClips : clips' = LoadedClips(n)
    /\ pc' = "validate"
    /\ UNCHANGED <<transitions, used_transition_slots, error, error_binding,
                   transition_classes, applied, concat_clip, written>>

\* line 219, one iteration of validate_indexes' loop on the next binding of
\* the command line; a ValueError is logged and merge exits with code 1
\* (line 220-222)
ValidateNext ==
    /\ UNCHANGED <<fvars, tvars, evars, ivars, svars>>
    /\ pc = "validate"
    /\ Len(transitions) < MaxBindings
    /\ \E transition \in Tokens :
         LET r == ValidateBinding(transition, used_transition_slots, Len(clips)) IN
         /\ transitions' = Append(transitions, transition)
         /\ used_transition_slots' = r.used
         /\ error' = r.raised
         /\ error_binding' = IF r.raised = "none" THEN 0 ELSE Len(transitions) + 1
         /\ pc' = IF r.raised = "none" THEN "validate" ELSE "exit1"
    /\ UNCHANGED <<clips, transition_classes, applied, concat_clip, written>>

\* the transition classes of line 231-234 for the bindings, as far as the
\* comprehension gets: <<class, int(i) - 1>> per binding
TransitionClasses(bindings) ==
    [b \in 1..Len(bindings) |->
        <<split(bindings[b])[1], int(split(bindings[b])[2]) - 1>>]

AllResolve(bindings) ==
    \A b \in 1..Len(bindings) : resolve_transition(split(bindings[b])[1])

\* the binding at which the comprehension of line 231-234 raises: it
\* resolves the names in list order
FirstUnresolved_last(bindings) ==
    CHOOSE b \in 1..Len(bindings) :
        /\ ~resolve_transition(split(bindings[b])[1])
        /\ \A a \in (b + 1)..Len(bindings) : resolve_transition(split(bindings[a])[1])

FirstUnresolved(bindings) ==
    CHOOSE b \in 1..Len(bindings) :
        /\ ~resolve_transition(split(bindings[b])[1])
        /\ \A a \in 1..(b - 1) : resolve_transition(split(bindings[a])[1])

\* line 219 returns (the list is exhausted), then line 225-237: every name
\* is resolved; the first unknown name raises, is logged, and merge exits
\* with code 1
ResolveAll ==
    /\ UNCHANGED <<fvars, tvars, evars, ivars, svars>>
    /\ pc = "validate"
    /\ IF AllResolve(transitions)
       THEN /\ transition_classes' = TransitionClasses(transitions)
            /\ error' = error
            /\ error_binding' = error_binding
            /\ pc' = "apply"
       ELSE /\ transition_classes' = transition_classes
            /\ error' = "invalid_transition"
            /\ error_binding' = FirstUnresolved(transitions)
            /\ pc' = "exit1"
    /\ UNCHANGED <<clips, transitions, used_transition_slots, applied,
                   concat_clip, written>>

\* the clip read as target at line 244
TargetIndex_self(idx) == idx

TargetIndex(idx) == idx + 1

\* list[i] for a list of n elements: i is an index if -n <= i < n, a
\* negative i counts from the end; Position is the 1-based position read
IsIndex(i, n) == -n <= i /\ i < n

Position(i, n) == IF i >= 0 THEN i + 1 ELSE n + i + 1

\* line 243-244, one iteration:
\*   clips[idx] = clips[idx].with_effects([tc(transition_to=clips[idx + 1])])
\* A number that is no index of the list raises IndexError, which merge
\* does not catch.
ApplyNext ==
    /\ UNCHANGED <<fvars, tvars, evars, ivars, svars>>
    /\ pc = "apply"
    /\ applied < Len(transition_classes)
    /\ LET tc  == transition_classes[applied + 1][1]
           idx == transition_classes[applied + 1][2]
           tgt == TargetIndex(idx)
       IN IF ~IsIndex(idx, Len(clips)) \/ ~IsIndex(tgt, Len(clips))
          THEN /\ pc' = "crash"
               /\ error' = "IndexError"
               /\ UNCHANGED <<clips, applied>>
          ELSE /\ clips' = [clips EXCEPT ![Position(idx, Len(clips))] =
                               with_effects(clips[Position(idx, Len(clips))], tc,
                                            clips[Position(tgt, Len(clips))])]
               /\ applied' = applied + 1
               /\ UNCHANGED <<pc, error>>
    /\ UNCHANGED <<transitions, used_transition_slots, error_binding,
                   transition_classes, concat_clip, written>>

\* line 251-264: concatenate_videoclips(clips, method="compose"), then the
\* optional background music
Concatenate ==
    /\ UNCHANGED <<fvars, tvars, evars, ivars, svars>>
    /\ pc = "apply"
    /\ applied = Len(transition_classes)
    /\ \E song \in BOOLEAN :
         concat_clip' = <<[clips |-> clips, audio |-> song]>>
    /\ pc' = "save"
    /\ UNCHANGED <<clips, transitions, used_transition_slots, error,
                   error_binding, transition_classes, applied, written>>

\* line 267: save_video(concat_clip, output)
SaveVideo ==
    /\ UNCHANGED <<fvars, tvars, evars, ivars, svars>>
    /\ pc = "save"
    /\ written' = concat_clip
    /\ pc' = "done"
    /\ UNCHANGED <<clips, transitions, used_transition_slots, error,
                   error_binding, transition_classes, applied, concat_clip>>

NextMerge ==
    \/ ListTransitions
    \/ LoadClips
    \/ ValidateNext
    \/ ResolveAll
    \/ ApplyNext
    \/ Concatenate
    \/ SaveVideo


\* ------------------------------------------------------------------------
\* Filter registry and compositor (src/filters/__init__.py)
\* ------------------------------------------------------------------------
FILTER_REGISTRY ==
    {"film", "greyscale", "high_contrast", "purpleish", "hue", "pink_future"}

\* names a caller may ask for: the registered ones and two that are not
FilterNames == FILTER_REGISTRY \cup {"sepia", "bogus"}

\* lists of at most n elements of S
ListsOf(S, n) == UNION {[1..k -> S] : k \in 0..n}

\* validate_filters(filter_names): <<>> when it returns, else the content of
\* the ValueError message: the invalid names joined in request order and
\* the valid names
validate_filters_first(filter_names) ==
    LET valid_filters   == FILTER_REGISTRY
        invalid_filters == SelectSeq(filter_names, LAMBDA name : name \notin valid_filters)
    IN IF Len(invalid_filters) > 0
       THEN <<[invalid |-> <<invalid_filters[1]>>, valid |-> valid_filters]>>
       ELSE <<>>

validate_filters(filter_names) ==
    LET valid_filters   == FILTER_REGISTRY
        invalid_filters == SelectSeq(filter_names, LAMBDA name : name \notin valid_filters)
    IN IF Len(invalid_filters) > 0
       THEN <<[invalid |-> invalid_filters, valid |-> valid_filters]>>
       ELSE <<>>

\* A frame is the source frame it was computed from and the filter calls it
\* went through, oldest first; the pixel arithmetic of a unit is left
\* uninterpreted.  film draws random grain on every call.
SourceFrame(i) == [src |-> i, ops |-> <<>>]

\* f(frame) for a unit f of the registry
FilterCall(f, frame, grain) ==
    [src |-> frame.src,
     ops |-> Append(frame.ops,
                    [unit |-> f.unit, grain |-> IF f.unit = "film" THEN grain ELSE 0])]

\* line 61: filter_instances = [FILTER_REGISTRY[name]() for name in filter_names]
apply_filters_dedup(filter_names) ==
    LET firsts == SelectSeq([i \in 1..Len(filter_names) |->
                                IF \E j \in 1..(i - 1) : filter_names[j] = filter_names[i]
                                THEN "" ELSE filter_names[i]],
                            LAMBDA name : name # "")
    IN [i \in 1..Len(firsts) |-> [unit |-> firsts[i]]]

apply_filters(filter_names) ==
    [i \in 1..Len(filter_names) |-> [unit |-> filter_names[i]]]

\* line 64-68: apply_all(frame), the loop from instance i on; grains[i] is
\* the grain instance i draws if it is film
RECURSIVE filter_apply_all(_, _, _, _)
filter_apply_all(instances, i, frame, grains) ==
    IF i > Len(instances) THEN frame
    ELSE filter_apply_all(instances, i + 1,
                          FilterCall(instances[i], frame, grains[i]), grains)

\* ------------------------------------------------------------------------
\* Effects (src/effects/stop_motion.py, src/effects/photo_movement.py)
\* ------------------------------------------------------------------------
StopMotionDefault == 2
PhotoMovementDefault == 4

\* the timestamps a frame accessor is defined on
Timestamps == 0..MaxCalls

\* the source clip of a traversal: its frame at tick t is frame t
SourceClip == [t \in Timestamps |-> t]

\* stop_motion(remove_every): the closure with its nonlocal variables
\* (duplicate_count belongs to photo_movement only and stays 0 here)
stop_motion(remove_every) ==
    [name |-> "stop_motion", param |-> remove_every,
     previous_frame |-> <<>>, duplicate_count |-> 0, last_index |-> -1]

\* photo_movement(duplicate_every): the closure with its nonlocal variables
photo_movement(duplicate_every) ==
    [name |-> "photo_movement", param |-> duplicate_every,
     previous_frame |-> <<>>, duplicate_count |-> 0, last_index |-> -1]

\* stop_motion's apply(get_frame, t): the frame returned, the instance
\* afterwards, the frame get_frame yielded and the branch taken
stop_motion_apply_offbyone(e, get_frame, t) ==
    LET frame       == get_frame[t]
        frame_index == e.last_index + 1
    IN IF (frame_index + 1) % e.param = 0
       THEN [out    |-> IF e.previous_frame # <<>> THEN e.previous_frame[1] ELSE frame,
             inst   |-> [e EXCEPT !.last_index = frame_index],
             seen   |-> frame,
             branch |-> IF e.previous_frame # <<>> THEN "replace" ELSE "first"]
       ELSE [out    |-> frame,
             inst   |-> [e EXCEPT !.last_index = frame_index,
                                  !.previous_frame = <<frame>>],
             seen   |-> frame,
             branch |-> "pass"]

\* the index taken from the timestamp
stop_motion_apply_bytime(e, get_frame, t) ==
    LET frame       == get_frame[t]
        frame_index == t
    IN IF frame_index % e.param = 0
       THEN [out    |-> IF e.previous_frame # <<>> THEN e.previous_frame[1] ELSE frame,
             inst   |-> [e EXCEPT !.last_index = frame_index],
             seen   |-> frame,
             branch |-> IF e.previous_frame # <<>> THEN "replace" ELSE "first"]
       ELSE [out    |-> frame,
             inst   |-> [e EXCEPT !.last_index = frame_index,
                                  !.previous_frame = <<frame>>],
             seen   |-> frame,
             branch |-> "pass"]

\* the frame retained on every call
stop_motion_apply_retain(e, get_frame, t) ==
    LET frame       == get_frame[t]
        frame_index == e.last_index + 1
    IN IF frame_index % e.param = 0
       THEN [out    |-> IF e.previous_frame # <<>> THEN e.previous_frame[1] ELSE frame,
             inst   |-> [e EXCEPT !.last_index = frame_index,
                                  !.previous_frame = <<frame>>],
             seen   |-> frame,
             branch |-> IF e.previous_frame # <<>> THEN "replace" ELSE "first"]
       ELSE [out    |-> frame,
             inst   |-> [e EXCEPT !.last_index = frame_index,
                                  !.previous_frame = <<frame>>],
             seen   |-> frame,
             branch |-> "pass"]

stop_motion_apply(e, get_frame, t) ==
    LET frame       == get_frame[t]
        frame_index == e.last_index + 1
    IN IF frame_index % e.param = 0
       THEN [out    |-> IF e.previous_frame # <<>> THEN e.previous_frame[1] ELSE frame,
             inst   |-> [e EXCEPT !.last_index = frame_index],
             seen   |-> frame,
             branch |-> IF e.previous_frame # <<>> THEN "replace" ELSE "first"]
       ELSE [out    |-> frame,
             inst   |-> [e EXCEPT !.last_index = frame_index,
                                  !.previous_frame = <<frame>>],
             seen   |-> frame,
             branch |-> "pass"]

\* photo_movement's apply(get_frame, t)
photo_movement_apply_short(e, get_frame, t) ==
    LET frame       == get_frame[t]
        frame_index == e.last_index + 1
    IN IF e.duplicate_count > 0
       THEN [out    |-> e.previous_frame[1],
             inst   |-> [e EXCEPT !.last_index = frame_index,
                                  !.duplicate_count = @ - 1],
             seen   |-> frame,
             branch |-> "hold"]
       ELSE IF frame_index % (e.param + 1) = 0
       THEN [out    |-> frame,
             inst   |-> [e EXCEPT !.last_index = frame_index,
                                  !.previous_frame = <<frame>>,
                                  !.duplicate_count = e.param - 1],
             seen   |-> frame,
             branch |-> "trigger"]
       ELSE [out    |-> frame,
             inst   |-> [e EXCEPT !.last_index = frame_index],
             seen   |-> frame,
             branch |-> "pass"]

photo_movement_apply(e, get_frame, t) ==
    LET frame       == get_frame[t]
        frame_index == e.last_index + 1
    IN IF e.duplicate_count > 0
       THEN [out    |-> e.previous_frame[1],
             inst   |-> [e EXCEPT !.last_index = frame_index,
                                  !.duplicate_count = @ - 1],
             seen   |-> frame,
             branch |-> "hold"]
       ELSE IF frame_index % (e.param + 1) = 0
       THEN [out    |-> frame,
             inst   |-> [e EXCEPT !.last_index = frame_index,
                                  !.previous_frame = <<frame>>,
                                  !.duplicate_count = e.param],
             seen   |-> frame,
             branch |-> "trigger"]
       ELSE [out    |-> frame,
             inst   |-> [e EXCEPT !.last_index = frame_index],
             seen   |-> frame,
             branch |-> "pass"]

\* e(get_frame, t) for an effect instance e
EffectCall(e, get_frame, t) ==
    IF e.name = "stop_motion" THEN stop_motion_apply(e, get_frame, t)
    ELSE photo_movement_apply(e, get_frame, t)

\* ------------------------------------------------------------------------
\* Effect registry and compositor (src/effects/__init__.py)
\* ------------------------------------------------------------------------
EFFECTS_REGISTRY == {"photo_movement", "stop_motion"}

EffectNames == EFFECTS_REGISTRY \cup {"slow_motion", "bogus"}

\* EFFECTS_REGISTRY[name](): a new instance with the default parameter
NewEffect(name) ==
    IF name = "stop_motion" THEN stop_motion(StopMotionDefault)
    ELSE photo_movement(PhotoMovementDefault)

\* validate_effects(effect_names), as validate_filters
validate_effects(effect_names) ==
    LET valid_effects   == EFFECTS_REGISTRY
        invalid_effects == SelectSeq(effect_names, LAMBDA name : name \notin valid_effects)
    IN IF Len(invalid_effects) > 0
       THEN <<[invalid |-> invalid_effects, valid |-> valid_effects]>>
       ELSE <<>>

\* line 43: effect_instances = [EFFECTS_REGISTRY[name]() for name in effect_names]
apply_effects(effect_names) ==
    [i \in 1..Len(effect_names) |-> NewEffect(effect_names[i])]

\* the accessor apply_all hands to an effect, `lambda _: frame`: whatever
\* its argument, the value of apply_all's variable `frame` at the time of
\* the call
Accessor_source(get_frame, frame) == get_frame

Accessor(get_frame, frame) == [x \in Timestamps |-> frame]

\* line 45-50: apply_all(get_frame, t), the loop from instance i on with
\* the local `frame`; the result is the instances afterwards, the frame
\* returned and, per effect, the timestamp it was given, the frame its
\* accessor yielded and the frame it returned
RECURSIVE effect_apply_all(_, _, _, _, _, _)
effect_apply_all(instances, i, frame, get_frame, t, log) ==
    IF i > Len(instances)
    THEN [instances |-> instances, frame |-> frame, log |-> log]
    ELSE LET r == EffectCall(instances[i], Accessor(get_frame, frame), t)
         IN effect_apply_all([instances EXCEPT ![i] = r.inst], i + 1, r.out,
                             get_frame, t,
                             Append(log, [t |-> t, seen |-> r.seen, out |-> r.out]))

\* ------------------------------------------------------------------------
\* Calls of the functions of the two packages
\* ------------------------------------------------------------------------
InitFx ==
    /\ fx_pc = "start"
    /\ names = <<>>
    /\ v_error = <<>>
    /\ filter_instances = <<>>
    /\ f_in = <<>>
    /\ f_out = <<>>
    /\ effect_instances = <<>>
    /\ calls = 0
    /\ outs = <<>>
    /\ branches = <<>>
    /\ call_log = <<>>

\* validate_filters(names) is called
ValidateFilters ==
    /\ fx_pc = "start"
    /\ \E filter_names \in ListsOf(FilterNames, MaxNames) :
         /\ names' = filter_names
         /\ v_error' = validate_filters(filter_names)
    /\ fx_pc' = "validate_filters"
    /\ UNCHANGED <<filter_instances, f_in, f_out, effect_instances, calls,
                   outs, branches, call_log>>
    /\ UNCHANGED <<mvars, tvars, evars, ivars, svars>>

\* validate_effects(names) is called
ValidateEffects ==
    /\ fx_pc = "start"
    /\ \E effect_names \in ListsOf(EffectNames, MaxNames) :
         /\ names' = effect_names
         /\ v_error' = validate_effects(effect_names)
    /\ fx_pc' = "validate_effects"
    /\ UNCHANGED <<filter_instances, f_in, f_out, effect_instances, calls,
                   outs, branches, call_log>>
    /\ UNCHANGED <<mvars, tvars, evars, ivars, svars>>

\* apply_filters(names) is called; a name that is no key of the registry
\* raises KeyError at line 61
ApplyFilters ==
    /\ fx_pc = "start"
    /\ \E filter_names \in ListsOf(FilterNames, MaxNames) :
         /\ names' = filter_names
         /\ IF \A i \in 1..Len(filter_names) : filter_names[i] \in FILTER_REGISTRY
            THEN /\ filter_instances' = apply_filters(filter_names)
                 /\ fx_pc' = "filter_queue"
            ELSE /\ filter_instances' = <<>>
                 /\ fx_pc' = "KeyError"
    /\ UNCHANGED <<v_error, f_in, f_out, effect_instances, calls, outs,
                   branches, call_log>>
    /\ UNCHANGED <<mvars, tvars, evars, ivars, svars>>

\* the function apply_filters returned is called on a frame (the filter
\* units keep nothing between calls, so the calls are not counted)
FilterApplyAll ==
    /\ fx_pc = "filter_queue"
    /\ \E i \in 0..MaxFrame, grains \in [1..Len(filter_instances) -> 0..MaxGrain] :
         /\ f_in' = <<SourceFrame(i)>>
         /\ f_out' = <<filter_apply_all(filter_instances, 1, SourceFrame(i), grains)>>
    /\ UNCHANGED <<fx_pc, names, v_error, filter_instances, effect_instances,
                   calls, outs, branches, call_log>>
    /\ UNCHANGED <<mvars, tvars, evars, ivars, svars>>

\* apply_effects(names) is called; a name that is no key of the registry
\* raises KeyError at line 43
ApplyEffects ==
    /\ fx_pc = "start"
    /\ \E effect_names \in ListsOf(EffectNames, MaxNames) :
         /\ names' = effect_names
         /\ IF \A i \in 1..Len(effect_names) : effect_names[i] \in EFFECTS_REGISTRY
            THEN /\ effect_instances' = apply_effects(effect_names)
                 /\ fx_pc' = "effect_queue"
            ELSE /\ effect_instances' = <<>>
                 /\ fx_pc' = "KeyError"
    /\ UNCHANGED <<v_error, filter_instances, f_in, f_out, calls, outs,
                   branches, call_log>>
    /\ UNCHANGED <<mvars, tvars, evars, ivars, svars>>

\* the function apply_effects returned is called for the next frame of a
\* gapless traversal of the source clip: call number i has t = i
EffectApplyAll ==
    /\ fx_pc = "effect_queue"
    /\ calls < MaxCalls
    /\ LET t == calls
           r == effect_apply_all(effect_instances, 1, SourceClip[t], SourceClip, t, <<>>)
       IN /\ effect_instances' = r.instances
          /\ outs' = Append(outs, r.frame)
          /\ call_log' = r.log
    /\ calls' = calls + 1
    /\ UNCHANGED <<fx_pc, names, v_error, filter_instances, f_in, f_out, branches>>
    /\ UNCHANGED <<mvars, tvars, evars, ivars, svars>>

\* stop_motion(remove_every) or photo_movement(duplicate_every) is called
MakeEffect ==
    /\ fx_pc = "start"
    /\ \/ \E remove_every \in 1..MaxParam :
            effect_instances' = <<stop_motion(remove_every)>>
       \/ \E duplicate_every \in 0..MaxParam :
            effect_instances' = <<photo_movement(duplicate_every)>>
    /\ fx_pc' = "effect"
    /\ UNCHANGED <<names, v_error, filter_instances, f_in, f_out, calls, outs,
                   branches, call_log>>
    /\ UNCHANGED <<mvars, tvars, evars, ivars, svars>>

\* the effect is called for the next frame of a gapless traversal of the
\* source clip
EffectApply ==
    /\ fx_pc = "effect"
    /\ calls < MaxCalls
    /\ LET t == calls
           r == EffectCall(effect_instances[1], SourceClip, t)
       IN /\ effect_instances' = <<r.inst>>
          /\ outs' = Append(outs, r.out)
          /\ branches' = Append(branches, r.branch)
    /\ calls' = calls + 1
    /\ UNCHANGED <<fx_pc, names, v_error, filter_instances, f_in, f_out, call_log>>
    /\ UNCHANGED <<mvars, tvars, evars, ivars, svars>>

NextFx ==
    \/ ValidateFilters
    \/ ValidateEffects
    \/ ApplyFilters
    \/ FilterApplyAll
    \/ ApplyEffects
    \/ EffectApplyAll
    \/ MakeEffect
    \/ EffectApply

\* ------------------------------------------------------------------------
\* ThreeBlocks (src/transitions/three_blocks.py)
\* ------------------------------------------------------------------------
\* Bounds
MaxW == 100         \* the target's first frame is 1..MaxW pixels wide
MaxH == 4           \* and 1..MaxH pixels high
MaxFrames == 101    \* the clip given to apply() has 0..MaxFrames frames
SubTicks == 2       \* a timestamp is a multiple of 1 / (SubTicks * fps)

\* Constants of the program.  The ratios are given in hundredths:
\* GAP_RATIO = 0.02, BAR_RATIO = 0.30, and 0.33, 0.66 of line 31
BARS == 3
GAP_RATIO_PCT == 2
BAR_RATIO_PCT == 30
Y1_PCT == 33
Y2_PCT == 66
\* the frame indices of line 71, 78 and 85
FIRST_BAR_INDEX == 50
SECOND_BAR_INDEX == 70
THIRD_BAR_INDEX == 100

\* int(ratio * n) for ratio = pct / 100 and n >= 0.  Python multiplies in
\* binary floating point and truncates; for the four ratios above and every
\* n up to 20000 the result is the integer quotient.
IntRatio(pct, n) == (pct * n) \div 100

\* round(ratio * n), Python's round: to the nearest integer, a tie to the
\* even neighbour
RoundRatio(pct, n) ==
    LET q == (pct * n) \div 100
        r == (pct * n) % 100
    IN IF r < 50 THEN q
       ELSE IF r > 50 THEN q + 1
       ELSE IF q % 2 = 0 THEN q ELSE q + 1

\* line 35: block = int(BAR_RATIO * w)
BlockWidth_round(w) == RoundRatio(BAR_RATIO_PCT, w)

BlockWidth(w) == IntRatio(BAR_RATIO_PCT, w)

\* line 34: gap = int(GAP_RATIO * w)
GapWidth(w) == IntRatio(GAP_RATIO_PCT, w)

\* line 40: left_pad = remainder // 2
LeftPad_all(remainder) == remainder

LeftPad(remainder) == remainder \div 2

\* line 43-48: the x coordinates of n bars from cursor on
RECURSIVE bar_xs(_, _, _, _)
bar_xs(cursor, n, block, gap) ==
    IF n = 0 THEN <<>>
    ELSE LET x1 == cursor
             x2 == cursor + block
         IN <<<<x1, x2>>>> \o bar_xs(x2 + gap, n - 1, block, gap)

\* A frame is named by its clip and the timestamp it was fetched with; the
\* pixels of the slice frame[y1:y2, x1:x2] are named by the frame and the
\* slice.
Frame(clip, t) == [clip |-> clip, t |-> t]

Crop(frame, y1, y2, x) == [frame |-> frame, y1 |-> y1, y2 |-> y2, x1 |-> x[1], x2 |-> x[2]]

\* ThreeBlocks(transition_to=target).__post_init__ on a target whose frame
\* at timestamp 0 has shape (h, w): line 27-53.  shape is not an attribute
\* of the instance; it is kept to state properties of the geometry.
ThreeBlocks(h, w) ==
    LET frame     == Frame("target", 0)
        y1        == IntRatio(Y1_PCT, h)
        y2        == IntRatio(Y2_PCT, h)
        gap       == GapWidth(w)
        block     == BlockWidth(w)
        used      == BARS * block + (BARS - 1) * gap
        remainder == w - used
        left_pad  == LeftPad(remainder)
        xs        == bar_xs(left_pad, BARS, block, gap)
    IN [shape |-> <<h, w>>, y1 |-> y1, y2 |-> y2, xs |-> xs,
        frame_crops |-> [i \in 1..BARS |-> Crop(frame, y1, y2, xs[i])]]

\* The array get_frame(t) returns, seen through the bar slices of self: px
\* are the three slices of the array `frame` names, rest is what lies outside
\* them; given are the slices of the array get_frame returned, alias tells
\* whether `frame` still names that array.
GivenFrame(self, get_frame, t) ==
    LET px == [i \in 1..BARS |-> Crop(get_frame[t], self.y1, self.y2, self.xs[i])]
    IN [px |-> px, rest |-> get_frame[t], alias |-> TRUE, given |-> px]

\* line 72, 79, 86: frame = frame.copy()
frame_copy_none(fs) == fs

frame_copy(fs) == [fs EXCEPT !.alias = FALSE]

\* line 73, 82, 89: frame[self.y1 : self.y2, x1:x2] = self.frame_crops[i],
\* written into the array `frame` names
paste(fs, i, self) ==
    [fs EXCEPT !.px[i] = self.frame_crops[i],
               !.given = IF fs.alias THEN [@ EXCEPT ![i] = self.frame_crops[i]] ELSE @]

\* line 80-82, 87-89: for i in range(n)
RECURSIVE paste_bars(_, _, _)
paste_bars(fs, n, self) ==
    IF n = 0 THEN fs ELSE paste(paste_bars(fs, n - 1, self), n, self)

\* line 68: frame_index = int(t * clip.fps); t counts ticks of
\* 1 / (SubTicks * fps) seconds, the product is taken exactly
FrameIndex(t) == t \div SubTicks

\* line 71, 78, 85: if frame_index >= 50 / 70 / 100
ThresholdReached_after(frame_index, threshold) == frame_index > threshold

ThresholdReached_always(frame_index, threshold) == TRUE

ThresholdReached(frame_index, threshold) == frame_index >= threshold

\* line 68-91: the body of filter once `frame` names the array get_frame
\* returned
filter_stages(self, frame, t) ==
    LET frame_index == FrameIndex(t)
        s1 == IF ThresholdReached(frame_index, FIRST_BAR_INDEX)
              THEN paste(frame_copy(frame), 1, self) ELSE frame
        s2 == IF ThresholdReached(frame_index, SECOND_BAR_INDEX)
              THEN paste_bars(frame_copy(s1), 2, self) ELSE s1
        s3 == IF ThresholdReached(frame_index, THIRD_BAR_INDEX)
              THEN paste_bars(frame_copy(s2), 3, self) ELSE s2
    IN s3

\* line 66-91: filter(get_frame, t)
tb_filter(self, get_frame, t) ==
    filter_stages(self, GivenFrame(self, get_frame, t), t)

\* the timestamps of a clip of n frames, and its frames
ClipTicks(n) == 0..(SubTicks * n - 1)

SourceFrames(n) == [t \in ClipTicks(n) |-> Frame("source", t)]

InitTB ==
    /\ tb_pc = "start"
    /\ tb = <<>>
    /\ target_reads = <<>>
    /\ clip_frames = 0
    /\ tb_calls = 0
    /\ tb_t = <<>>
    /\ tb_out = <<>>

\* tc(transition_to=clips[idx + 1]) of src/main.py:244 on a target whose
\* first frame is w pixels wide and h pixels high
PostInit(w, h) ==
    /\ tb_pc = "start"
    /\ target_reads' = Append(target_reads, 0)
    /\ tb' = <<ThreeBlocks(h, w)>>
    /\ tb_pc' = "constructed"
    /\ UNCHANGED <<clip_frames, tb_calls, tb_t, tb_out>>
    /\ UNCHANGED <<mvars, fvars, evars, ivars, svars>>

\* line 55-94: apply(clip) on a clip of 0..MaxFrames frames returns the clip
\* whose frames are made by filter
TBApply ==
    /\ tb_pc = "constructed"
    /\ \E n \in 0..MaxFrames : clip_frames' = n
    /\ tb_pc' = "applied"
    /\ UNCHANGED <<tb, target_reads, tb_calls, tb_t, tb_out>>
    /\ UNCHANGED <<mvars, fvars, evars, ivars, svars>>

\* one call filter(get_frame, t)
TBCall(t) ==
    /\ tb_t' = <<t>>
    /\ tb_out' = <<tb_filter(tb[1], SourceFrames(clip_frames), t)>>
    /\ tb_calls' = tb_calls + 1
    /\ UNCHANGED <<tb, target_reads, clip_frames>>
    /\ UNCHANGED <<mvars, fvars, evars, ivars, svars>>

\* get_frame(t) of the returned clip at any timestamp of the clip (the
\* clip interface is random access): the first call made to the function
TBPreview ==
    /\ tb_pc = "applied"
    /\ tb_pc' = "preview"
    /\ \E t \in ClipTicks(clip_frames) : TBCall(t)

\* write_videofile of src/utils: the frames are fetched in order, frame i at
\* t = i / fps
TBWriteNext ==
    /\ tb_pc \in {"applied", "writing"}
    /\ tb_calls < clip_frames
    /\ tb_pc' = "writing"
    /\ TBCall(tb_calls * SubTicks)

\* all frames are written: the run completes
TBWriteDone ==
    /\ tb_pc \in {"applied", "writing"}
    /\ tb_calls = clip_frames
    /\ tb_pc' = "done"
    /\ UNCHANGED <<tb, target_reads, clip_frames, tb_calls, tb_t, tb_out>>
    /\ UNCHANGED <<mvars, fvars, evars, ivars, svars>>

\* construction alone, on every frame size
NextGeom == \E w \in 1..MaxW, h \in 1..MaxH : PostInit(w, h)

\* one instance on a target of the largest sizes, applied and traversed
NextTB ==
    \/ \E w \in (MaxW - 1)..MaxW : PostInit(w, MaxH)
    \/ TBApply
    \/ TBPreview
    \/ TBWriteNext
    \/ TBWriteDone

\* ------------------------------------------------------------------------
\* The frames of the clips of merge (src/main.py:244,
\* src/transitions/three_blocks.py)
\* ------------------------------------------------------------------------
\* Every clip of a merge is MaxW pixels wide and MaxH pixels high, so all
\* transitions have the same bar slices; a frame is given by the content of
\* its three bar slices (px) and of what lies outside them (rest).
ClipGeometry == ThreeBlocks(MaxH, MaxW)

\* VideoFileClip(paths[i]).get_frame(t)
FileFrame(path, t) ==
    [px   |-> [i \in 1..BARS |-> Crop(Frame(path, t), ClipGeometry.y1,
                                      ClipGeometry.y2, ClipGeometry.xs[i])],
     rest |-> Frame(path, t)]

RECURSIVE clip_get_frame(_, _)
RECURSIVE transition_instance(_)
\* tc(transition_to=target): __post_init__ crops target.get_frame(0)
transition_instance(target) ==
    [ClipGeometry EXCEPT !.frame_crops =
        [i \in 1..BARS |-> clip_get_frame(target, 0).px[i]]]

\* clip.get_frame(t) for a clip of the list: the file's frame, passed
\* through the filter of every transition the clip was given, in order
clip_get_frame(clip, t) ==
    IF clip.fx = <<>> THEN FileFrame(clip.path, t)
    ELSE LET inner == clip_get_frame([clip EXCEPT !.fx = SubSeq(@, 1, Len(@) - 1)], t)
             self  == transition_instance(clip.fx[Len(clip.fx)].transition_to)
             out   == filter_stages(self,
                                    [px |-> inner.px, rest |-> inner.rest,
                                     alias |-> TRUE, given |-> inner.px], t)
         IN [px |-> out.px, rest |-> out.rest]

\* ------------------------------------------------------------------------
\* edit (src/main.py:23-150, src/commands/edit.py)
\* ------------------------------------------------------------------------
MaxOption == 3      \* --filters and --effects have at most MaxOption symbols

\* the values of an option: strings of names and commas (a name is one
\* symbol, so two names are never adjacent)
OptionStrings(Names) ==
    {s \in ListsOf(Names \cup {","}, MaxOption) :
        \A i \in 1..(Len(s) - 1) : s[i] = "," \/ s[i + 1] = ","}

\* one element of str.split(","): the text between two commas, "" if none
Segment(s) == IF s = <<>> THEN "" ELSE s[1]

\* str.split(",")
RECURSIVE split_comma(_)
split_comma(s) ==
    IF \E i \in 1..Len(s) : s[i] = ","
    THEN LET i == CHOOSE k \in 1..Len(s) :
                      s[k] = "," /\ \A j \in 1..(k - 1) : s[j] # ","
         IN <<Segment(SubSeq(s, 1, i - 1))>> \o split_comma(SubSeq(s, i + 1, Len(s)))
    ELSE <<Segment(s)>>

\* line 114, 134: if not filter_list or filter_list == [""]
NoneSelected(list) == list = <<>> \/ list = <<"">>

NoError == [kind |-> "none", detail |-> <<>>]

InitEdit ==
    /\ e_pc = "start"
    /\ filter_list = <<>>
    /\ effects_list = <<>>
    /\ e_error = NoError
    /\ filter_queue = <<>>
    /\ effect_queue = <<>>
    /\ processed_clip = <<>>
    /\ e_written = <<>>

\* line 82-90: --list-filters or --list-effects logs the registry and exits
EditList ==
    /\ e_pc = "start"
    /\ e_pc' = "exit0"
    /\ UNCHANGED <<filter_list, effects_list, e_error, filter_queue,
                   effect_queue, processed_clip, e_written>>
    /\ UNCHANGED <<mvars, fvars, tvars, ivars, svars>>

\* line 96-100: the input path is no file
EditNoFile ==
    /\ e_pc = "start"
    /\ e_error' = [kind |-> "no_file", detail |-> <<>>]
    /\ e_pc' = "exit1"
    /\ UNCHANGED <<filter_list, effects_list, filter_queue, effect_queue,
                   processed_clip, e_written>>
    /\ UNCHANGED <<mvars, fvars, tvars, ivars, svars>>

\* line 106-127: the clip is loaded; the filters are validated, then
\* instantiated and attached with image_transform
EditFilters ==
    /\ e_pc = "start"
    /\ \E filters \in OptionStrings(FilterNames) :
         LET list == split_comma(filters) IN
         /\ filter_list' = list
         /\ IF NoneSelected(list)
            THEN /\ e_pc' = "effects"
                 /\ UNCHANGED <<e_error, filter_queue, processed_clip>>
            ELSE IF validate_filters(list) # <<>>
            THEN /\ e_error' = [kind |-> "invalid_filters", detail |-> validate_filters(list)]
                 /\ e_pc' = "exit1"
                 /\ UNCHANGED <<filter_queue, processed_clip>>
            ELSE /\ filter_queue' = <<apply_filters(list)>>
                 /\ processed_clip' = Append(processed_clip, "image_transform")
                 /\ e_pc' = "effects"
                 /\ UNCHANGED e_error
    /\ UNCHANGED <<effects_list, effect_queue, e_written>>
    /\ UNCHANGED <<mvars, fvars, tvars, ivars, svars>>

\* line 131-147: the effects are validated, then instantiated and attached
\* with transform
EditEffects ==
    /\ e_pc = "effects"
    /\ \E effects \in OptionStrings(EffectNames) :
         LET list == split_comma(effects) IN
         /\ effects_list' = list
         /\ IF NoneSelected(list)
            THEN /\ e_pc' = "save"
                 /\ UNCHANGED <<e_error, effect_queue, processed_clip>>
            ELSE IF validate_effects(list) # <<>>
            THEN /\ e_error' = [kind |-> "invalid_effects", detail |-> validate_effects(list)]
                 /\ e_pc' = "exit1"
                 /\ UNCHANGED <<effect_queue, processed_clip>>
            ELSE /\ effect_queue' = <<apply_effects(list)>>
                 /\ processed_clip' = Append(processed_clip, "transform")
                 /\ e_pc' = "save"
                 /\ UNCHANGED e_error
    /\ UNCHANGED <<filter_list, filter_queue, e_written>>
    /\ UNCHANGED <<mvars, fvars, tvars, ivars, svars>>

\* line 150: save_video(processed_clip, output)
EditSave ==
    /\ e_pc = "save"
    /\ e_written' = <<processed_clip>>
    /\ e_pc' = "done"
    /\ UNCHANGED <<filter_list, effects_list, e_error, filter_queue,
                   effect_queue, processed_clip>>
    /\ UNCHANGED <<mvars, fvars, tvars, ivars, svars>>

NextEdit ==
    \/ EditList
    \/ EditNoFile
    \/ EditFilters
    \/ EditEffects
    \/ EditSave

\* ------------------------------------------------------------------------
\* Two effect pipelines side by side (src/effects/__init__.py:32-52)
\* ------------------------------------------------------------------------
MaxPipeNames == 2   \* apply_effects is called twice, each time with
                    \* 1..MaxPipeNames registered names

\* The nonlocal variables of an instance live in the cells of its closure;
\* store is the sequence of all cells made so far, an instance is the
\* position of its cells.  EFFECTS_REGISTRY[name]() of line 43 makes new
\* cells on every call.
new_instance_shared(store, name) ==
    IF \E c \in 1..Len(store) : store[c].name = name
    THEN CHOOSE c \in 1..Len(store) : store[c].name = name
    ELSE Len(store) + 1

new_instance(store, name) == Len(store) + 1

\* line 43: the list comprehension over effect_names from position i on
RECURSIVE make_instances(_, _, _, _)
make_instances(store, effect_names, i, made) ==
    IF i > Len(effect_names) THEN [store |-> store, instances |-> made]
    ELSE LET c == new_instance(store, effect_names[i])
         IN make_instances(IF c > Len(store)
                           THEN Append(store, NewEffect(effect_names[i]))
                           ELSE store,
                           effect_names, i + 1, Append(made, c))

\* line 45-50: apply_all(get_frame, t) of one pipeline, from instance i on
RECURSIVE pipe_apply_all(_, _, _, _, _, _)
pipe_apply_all(store, instances, i, frame, get_frame, t) ==
    IF i > Len(instances) THEN [store |-> store, frame |-> frame]
    ELSE LET r == EffectCall(store[instances[i]], Accessor(get_frame, frame), t)
         IN pipe_apply_all([store EXCEPT ![instances[i]] = r.inst],
                           instances, i + 1, r.out, get_frame, t)

InitPipes ==
    /\ iso_store = <<>>
    /\ iso_names = <<>>
    /\ iso_pipes = <<>>
    /\ iso_calls = <<>>
    /\ iso_outs = <<>>

\* apply_effects(effect_names) is called once more
PipeApplyEffects ==
    /\ Len(iso_pipes) < 2
    /\ \E effect_names \in ListsOf(EFFECTS_REGISTRY, MaxPipeNames) \ {<<>>} :
         LET r == make_instances(iso_store, effect_names, 1, <<>>) IN
         /\ iso_store' = r.store
         /\ iso_names' = Append(iso_names, effect_names)
         /\ iso_pipes' = Append(iso_pipes, r.instances)
    /\ iso_calls' = Append(iso_calls, 0)
    /\ iso_outs' = Append(iso_outs, <<>>)
    /\ UNCHANGED <<mvars, fvars, tvars, evars, svars>>

\* the function pipeline p got from apply_effects is called for the next
\* frame of a gapless traversal of its source clip
PipeApplyAll(p) ==
    /\ iso_calls[p] < MaxCalls
    /\ LET t == iso_calls[p]
           r == pipe_apply_all(iso_store, iso_pipes[p], 1, SourceClip[t], SourceClip, t)
       IN /\ iso_store' = r.store
          /\ iso_outs' = [iso_outs EXCEPT ![p] = Append(@, r.frame)]
    /\ iso_calls' = [iso_calls EXCEPT ![p] = @ + 1]
    /\ UNCHANGED <<iso_names, iso_pipes>>
    /\ UNCHANGED <<mvars, fvars, tvars, evars, svars>>

NextPipes ==
    \/ PipeApplyEffects
    \/ \E p \in 1..Len(iso_pipes) : PipeApplyAll(p)

\* ------------------------------------------------------------------------
\* One effect on two traversals that pass other timestamps
\* (src/effects/stop_motion.py, src/effects/photo_movement.py)
\* ------------------------------------------------------------------------
MaxTsCalls == 3     \* calls of each of the two traversals

\* a clip that shows every frame of SourceClip for two ticks: its frame at
\* tick t is frame t div 2
SlowClip == [t \in 0..(2 * MaxCalls + 1) |-> t \div 2]

InitTs ==
    /\ ts_inst = <<>>
    /\ ts_tA = <<>>
    /\ ts_tB = <<>>
    /\ ts_outs = <<<<>>, <<>>>>
    /\ ts_branches = <<<<>>, <<>>>>

\* stop_motion(remove_every) or photo_movement(duplicate_every) is called
\* twice with the same argument: one instance per traversal
TsMake ==
    /\ ts_inst = <<>>
    /\ \/ \E remove_every \in 1..MaxParam :
            ts_inst' = <<stop_motion(remove_every), stop_motion(remove_every)>>
       \/ \E duplicate_every \in 0..MaxParam :
            ts_inst' = <<photo_movement(duplicate_every), photo_movement(duplicate_every)>>
    /\ UNCHANGED <<ts_tA, ts_tB, ts_outs, ts_branches>>
    /\ UNCHANGED <<mvars, fvars, tvars, evars, ivars>>

\* each instance is called once more: the first on SourceClip at any
\* timestamp tA (a repeated or an earlier one included), the second on
\* SlowClip at a timestamp tB that yields the same frame
TsCall ==
    /\ ts_inst # <<>>
    /\ Len(ts_tA) < MaxTsCalls
    /\ \E tA \in DOMAIN SourceClip, tB \in DOMAIN SlowClip :
         /\ SlowClip[tB] = SourceClip[tA]
         /\ LET rA == EffectCall(ts_inst[1], SourceClip, tA)
                rB == EffectCall(ts_inst[2], SlowClip, tB)
            IN /\ ts_inst' = <<rA.inst, rB.inst>>
               /\ ts_outs' = <<Append(ts_outs[1], rA.out), Append(ts_outs[2], rB.out)>>
               /\ ts_branches' = <<Append(ts_branches[1], rA.branch),
                                   Append(ts_branches[2], rB.branch)>>
         /\ ts_tA' = Append(ts_tA, tA)
         /\ ts_tB' = <<tB>>
    /\ UNCHANGED <<mvars, fvars, tvars, evars, ivars>>

NextTs ==
    \/ TsMake
    \/ TsCall

\* ------------------------------------------------------------------------
\* Specifications
\* ------------------------------------------------------------------------
Init ==
    /\ InitMerge
    /\ InitFx
    /\ InitTB
    /\ InitEdit
    /\ InitPipes
    /\ InitTs

\* a run of merge
Spec == Init /\ [][NextMerge]_vars

\* calls of the filter and effect packages
SpecFx == Init /\ [][NextFx]_vars

\* construction of ThreeBlocks
SpecGeom == Init /\ [][NextGeom]_vars

\* one ThreeBlocks instance over its life
SpecTB == Init /\ [][NextTB]_vars

\* a run of edit
SpecEdit == Init /\ [][NextEdit]_vars

\* effect pipelines called in any interleaving
SpecPipes == Init /\ [][NextPipes]_vars

\* one effect called on two traversals
SpecTs == Init /\ [][NextTs]_vars

\* ------------------------------------------------------------------------
\* Properties of merge and validate_indexes
\* ------------------------------------------------------------------------
\* A binding read as <name>@<index>: the text before the first "@" and the
\* text after it (the whole token and nothing when there is no "@")
FirstAt(tok) ==
    IF \E i \in 1..Len(tok) : tok[i] = "@"
    THEN CHOOSE i \in 1..Len(tok) : tok[i] = "@" /\ \A j \in 1..(i - 1) : tok[j] # "@"
    ELSE Len(tok) + 1

NamePortion(tok) == SubSeq(tok, 1, FirstAt(tok) - 1)

IndexPortion(tok) == SubSeq(tok, FirstAt(tok) + 1, Len(tok))

AllDigits(s) == Len(s) > 0 /\ \A i \in 1..Len(s) : s[i] \in DigitChars

\* the errors validate_indexes raises
ValidationErrors ==
    {"missing_clip_number", "unpack", "not_a_number", "out_of_bounds", "already_used"}

\* binding b was accepted by validate_indexes: its iteration ended normally
Accepted(b) ==
    /\ b \in 1..Len(transitions)
    /\ b < Len(transitions) \/ error \notin ValidationErrors

\* binding b is the one validate_indexes raised on, with error kind e
RejectedWith(b, e) == b = Len(transitions) /\ error = e /\ pc = "exit1"

\* C1: a binding whose index portion parses to k is accepted only if
\* 1 <= k < clip_count and is rejected as out of bounds otherwise; for 3
\* clips x@1 and x@2 are accepted, x@0 and x@3 are out of bounds; for at
\* most one clip every numeric binding is rejected.
C1_BoundsChecked ==
    \A b \in 1..Len(transitions) :
        LET tok == transitions[b] IN
        AllDigits(IndexPortion(tok)) /\ FirstAt(tok) <= Len(tok) =>
            LET k == int(IndexPortion(tok)) IN
            /\ Accepted(b) => 1 <= k /\ k < Len(clips)
            /\ ~(1 <= k /\ k < Len(clips)) => RejectedWith(b, "out_of_bounds")
            /\ Len(clips) <= 1 => ~Accepted(b)
            /\ Len(clips) = 3 /\ b = 1 /\ k \in {1, 2} => Accepted(b)
            /\ Len(clips) = 3 /\ k \in {0, 3} => RejectedWith(b, "out_of_bounds")

\* 3 clips: x@2 was accepted and x@3 then rejected as out of bounds
C1_Witness ==
    /\ Len(clips) = 3
    /\ transitions = <<<<"crossfade", "@", "2">>, <<"crossfade", "@", "3">>>>
    /\ error = "out_of_bounds"

\* C2: the accepted bindings have pairwise distinct numeric indices, and a
\* binding that repeats the index of an earlier one (whatever the names and
\* the spelling of the number) is rejected as a duplicate where it occurs.
C2_DistinctJunctions ==
    /\ \A a, b \in 1..Len(transitions) :
           Accepted(a) /\ Accepted(b) /\ a # b =>
               int(IndexPortion(transitions[a])) # int(IndexPortion(transitions[b]))
    /\ \A b \in 1..Len(transitions) :
           LET tok == transitions[b] IN
           /\ AllDigits(IndexPortion(tok))
           /\ 1 <= int(IndexPortion(tok)) /\ int(IndexPortion(tok)) < Len(clips)
           /\ \E a \in 1..(b - 1) :
                  int(IndexPortion(transitions[a])) = int(IndexPortion(tok))
           => RejectedWith(b, "already_used")

\* 3 clips: three_blocks@1 then crossfade@01 fails as a duplicate of slot 1
C2_Witness ==
    /\ Len(clips) = 3
    /\ transitions = <<<<"three_blocks", "@", "1">>, <<"crossfade", "@", "0", "1">>>>
    /\ error = "already_used"
    /\ used_transition_slots = <<1>>

\* C3: a binding without "@" or with nothing after the "@" is rejected with
\* the missing-clip-number error, and a binding whose index portion is
\* non-empty but not made only of digits is rejected with the not-a-number
\* error, both whatever the clip count is (before the bounds check).
C3_FormatThenNumber ==
    \A b \in 1..Len(transitions) :
        LET tok == transitions[b] IN
        /\ Len(IndexPortion(tok)) = 0 => RejectedWith(b, "missing_clip_number")
        /\ Len(IndexPortion(tok)) > 0 /\ ~AllDigits(IndexPortion(tok))
               => RejectedWith(b, "not_a_number")

\* binding b obeys the five rules of the orchestrator
ObeysRules(b) ==
    LET tok == transitions[b] IN
    /\ FirstAt(tok) <= Len(tok)
    /\ AllDigits(IndexPortion(tok))
    /\ 1 <= int(IndexPortion(tok)) /\ int(IndexPortion(tok)) < Len(clips)
    /\ \A a \in 1..(b - 1) :
           int(IndexPortion(transitions[a])) # int(IndexPortion(tok))
    /\ NamePortion(tok) \in TRANSITION_REGISTRY

\* no transition instantiated, no clip rebound, nothing concatenated or saved
NothingDone ==
    /\ \A p \in 1..Len(clips) : clips[p] = VideoFileClip(p)
    /\ applied = 0
    /\ concat_clip = <<>>
    /\ written = <<>>

\* C4: every rule is evaluated for every binding before any transition is
\* instantiated or any clip rebound: once merge is past resolution every
\* binding obeys the five rules, and until then, and in every run that ends
\* with an error, no clip is modified, nothing is concatenated or written.
C4_ValidateBeforeApply ==
    /\ pc \in {"apply", "save", "done"} =>
           \A b \in 1..Len(transitions) : ObeysRules(b)
    /\ pc \notin {"apply", "save", "done"} => NothingDone
    /\ error # "none" => NothingDone /\ pc = "exit1"

\* a run whose second binding names an unknown transition: the first,
\* valid, binding was not applied
C4_Witness ==
    /\ Len(clips) = 3
    /\ transitions = <<<<"three_blocks", "@", "1">>, <<"crossfade", "@", "2">>>>
    /\ error = "invalid_transition"
    /\ pc = "exit1"
    /\ NothingDone

\* C5: bindings are applied in caller order; the step for binding name@k
\* rebinds only position k - 1 (0-based) to the transition `name` built on
\* the clip at position k as it stands at that moment and applied to the
\* clip at position k - 1; length and order of the list are kept, and the
\* clips no binding names reach concatenation unchanged.
C5_Step ==
    /\ pc = "apply" /\ pc' = "apply" =>
           LET tok == transitions[applied + 1]
               k   == int(IndexPortion(tok))
           IN /\ applied' = applied + 1
              /\ Len(clips') = Len(clips)
              /\ \A p \in 1..Len(clips) : p # k => clips'[p] = clips[p]
              /\ clips'[k] =
                   [path |-> clips[k].path,
                    fx   |-> Append(clips[k].fx,
                                    [tc |-> NamePortion(tok),
                                     transition_to |-> clips[k + 1]])]
    /\ pc = "apply" /\ pc' = "save" =>
           /\ applied = Len(transitions)
           /\ concat_clip'[1].clips = clips
           /\ \A p \in 1..Len(clips) :
                  (\A b \in 1..Len(transitions) :
                       int(IndexPortion(transitions[b])) # p)
                  => clips[p] = VideoFileClip(p)
    /\ pc \notin {"start", "apply"} => clips' = clips

C5_AppliedInCallerOrder == [][C5_Step]_vars

\* three_blocks@2 then three_blocks@1 on 3 clips: clip 1 is built on clip 2
\* as rebound by the first binding
C5_Witness ==
    /\ pc = "save"
    /\ transitions = <<<<"three_blocks", "@", "2">>, <<"three_blocks", "@", "1">>>>
    /\ Len(clips) = 3
    /\ Len(clips[1].fx) = 1
    /\ clips[1].fx[1].transition_to = clips[2]
    /\ Len(clips[2].fx) = 1
    /\ clips[2].fx[1].transition_to = VideoFileClip(3)
    /\ clips[3] = VideoFileClip(3)

\* ------------------------------------------------------------------------
\* Properties of the filter and effect packages
\* ------------------------------------------------------------------------
\* what a validation of the list ns against the registry reg must answer
NamesChecked(ns, reg) ==
    /\ v_error = <<>> <=> \A i \in 1..Len(ns) : ns[i] \in reg
    /\ v_error # <<>> =>
           /\ \A i \in 1..Len(ns) :
                  ns[i] \notin reg =>
                      \E j \in 1..Len(v_error[1].invalid) : v_error[1].invalid[j] = ns[i]
           /\ \A j \in 1..Len(v_error[1].invalid) : v_error[1].invalid[j] \notin reg
           /\ v_error[1].valid = reg
    /\ Len(ns) = 0 => v_error = <<>>
    /\ Len(ns) = 1 /\ ns[1] \in reg => v_error = <<>>

\* C6: validate_filters and validate_effects succeed exactly when every
\* requested name is registered (so for every registered name alone and for
\* the empty list); the error names every unregistered requested name, not
\* only the first, and all registered names.
C6_NamesValidated ==
    /\ fx_pc = "validate_filters" => NamesChecked(names, FILTER_REGISTRY)
    /\ fx_pc = "validate_effects" => NamesChecked(names, EFFECTS_REGISTRY)

\* two unknown filters around a known one: both are reported
C6_Witness ==
    /\ fx_pc = "validate_filters"
    /\ names = <<"sepia", "film", "bogus">>
    /\ v_error # <<>>
    /\ v_error[1].invalid = <<"sepia", "bogus">>

\* C7: the function apply_filters(names) returns sends a frame through one
\* unit per requested name, in the order of the request, nothing reordered
\* or left out: the calls the result went through are those of names, a
\* name listed twice is applied twice, and for the empty list the frame
\* comes back as it was given.
C7_FoldInOrder ==
    fx_pc = "filter_queue" =>
        /\ Len(filter_instances) = Len(names)
        /\ f_out # <<>> =>
               /\ f_out[1].src = f_in[1].src
               /\ Len(f_out[1].ops) = Len(names)
               /\ \A i \in 1..Len(names) : f_out[1].ops[i].unit = names[i]
               /\ Len(names) = 0 => f_out = f_in

\* greyscale, hue, greyscale: greyscale is applied twice, hue in between
C7_Witness ==
    /\ fx_pc = "filter_queue"
    /\ names = <<"greyscale", "hue", "greyscale">>
    /\ f_in = <<SourceFrame(1)>>
    /\ f_out # <<>>
    /\ Len(f_out[1].ops) = 3
    /\ f_out[1].ops[2].unit = "hue"

\* C8: on every call of the function apply_effects(names) returns, each
\* instance is invoked exactly once, in request order and with the call's
\* timestamp; the accessor of the first effect yields the source frame and
\* that of effect i the frame effect i - 1 returned on this call; the call
\* returns what the last effect returned.
C8_EffectsStack ==
    fx_pc = "effect_queue" /\ calls > 0 =>
        LET t == calls - 1 IN
        /\ Len(call_log) = Len(names)
        /\ Len(effect_instances) = Len(names)
        /\ \A i \in 1..Len(names) :
               /\ effect_instances[i].name = names[i]
               /\ effect_instances[i].last_index = t
               /\ call_log[i].t = t
               /\ call_log[i].seen =
                      IF i = 1 THEN SourceClip[t] ELSE call_log[i - 1].out
        /\ outs[calls] =
               IF Len(names) = 0 THEN SourceClip[t] ELSE call_log[Len(names)].out

\* stop_motion then photo_movement, third frame: stop_motion returns frame
\* 1 for frame 2, and photo_movement is given frame 1, not frame 2
C8_Witness ==
    /\ fx_pc = "effect_queue"
    /\ names = <<"stop_motion", "photo_movement">>
    /\ calls = 3
    /\ call_log[1].out = SourceClip[1]
    /\ call_log[2].seen = SourceClip[1]
    /\ call_log[2].seen # SourceClip[2]

\* C9: a fresh stop_motion with remove_every = N >= 2, called once per
\* frame in order, returns frame i - 1 at call i when i > 0 and i mod N = 0
\* and frame i otherwise; with N = 2 over 6 frames: 0, 1, 1, 3, 3, 5.
C9_StopMotionOutputs ==
    fx_pc = "effect" /\ effect_instances[1].name = "stop_motion"
                     /\ effect_instances[1].param >= 2 =>
        LET N == effect_instances[1].param IN
        /\ Len(outs) = calls
        /\ \A i \in 0..(calls - 1) :
               outs[i + 1] = IF i > 0 /\ i % N = 0 THEN SourceClip[i - 1]
                             ELSE SourceClip[i]
        /\ N = 2 /\ calls = 6 =>
               outs = <<SourceClip[0], SourceClip[1], SourceClip[1],
                        SourceClip[3], SourceClip[3], SourceClip[5]>>

C9_Witness ==
    /\ fx_pc = "effect"
    /\ effect_instances[1].name = "stop_motion"
    /\ effect_instances[1].param = 2
    /\ outs = <<0, 1, 1, 3, 3, 5>>

\* C10: a fresh photo_movement with duplicate_every = d >= 0, called once
\* per frame in order, triggers exactly at the calls whose index is a
\* multiple of d + 1 and returns at call i the frame i - (i mod (d + 1));
\* with d = 2 over 6 frames: 0, 0, 0, 3, 3, 3.
C10_PhotoMovementOutputs ==
    fx_pc = "effect" /\ effect_instances[1].name = "photo_movement" =>
        LET d == effect_instances[1].param IN
        /\ Len(outs) = calls /\ Len(branches) = calls
        /\ \A i \in 0..(calls - 1) :
               /\ branches[i + 1] = "trigger" <=> i % (d + 1) = 0
               /\ outs[i + 1] = SourceClip[i - (i % (d + 1))]
        /\ d = 2 /\ calls = 6 =>
               outs = <<SourceClip[0], SourceClip[0], SourceClip[0],
                        SourceClip[3], SourceClip[3], SourceClip[3]>>

C10_Witness ==
    /\ fx_pc = "effect"
    /\ effect_instances[1].name = "photo_movement"
    /\ effect_instances[1].param = 2
    /\ outs = <<0, 0, 0, 3, 3, 3>>
    /\ branches = <<"trigger", "hold", "hold", "trigger", "hold", "hold">>

\* ------------------------------------------------------------------------
\* Properties of ThreeBlocks
\* ------------------------------------------------------------------------
\* the bars of a returned frame that show the target's crop
PastedBars(fs) == {i \in 1..BARS : fs.px[i] = tb[1].frame_crops[i]}

\* the bars whose threshold the index i has reached
BarsDue(i) ==
    {b \in 1..BARS : (b = 1 /\ i >= 50) \/ (b = 2 /\ i >= 70) \/ (b = 3 /\ i >= 100)}

\* C11: the index compared with the thresholds is the number of calls made
\* before: the n-th call of the per-frame function shows the bars due at
\* index n - 1, whatever timestamp it is given.
C11_IndexIsCallOrder ==
    tb_out # <<>> => PastedBars(tb_out[1]) = BarsDue(tb_calls - 1)

\* C12: the bars pasted into a returned frame are those due at its frame
\* index, int(t * fps): none below 50, the first from 50, the first two from
\* 70, all three from 100; every other pixel is the source frame's.
C12_BarsByFrameIndex ==
    tb_out # <<>> =>
        LET out   == tb_out[1]
            t     == tb_t[1]
            index == t \div SubTicks
            src   == Frame("source", t)
        IN /\ index < 50 => PastedBars(out) = {}
           /\ 50 <= index /\ index < 70 => PastedBars(out) = {1}
           /\ 70 <= index /\ index < 100 => PastedBars(out) = {1, 2}
           /\ 100 <= index => PastedBars(out) = {1, 2, 3}
           /\ out.rest = src
           /\ \A i \in (1..BARS) \ PastedBars(out) :
                  out.px[i] = Crop(src, tb[1].y1, tb[1].y2, tb[1].xs[i])

\* a frame of index 70, fetched between two frame times, shows two bars
C12_Witness ==
    /\ tb_out # <<>>
    /\ tb_t = <<70 * SubTicks + 1>>
    /\ PastedBars(tb_out[1]) = {1, 2}

\* the width of bar i, the gap after bar i, and the span of bars and gaps
BarWidth(self, i) == self.xs[i][2] - self.xs[i][1]

GapAfter(self, i) == self.xs[i + 1][1] - self.xs[i][2]

Span(self) == self.xs[BARS][2] - self.xs[1][1]

\* C13 as stated: every bar is round(0.30 W) wide, every gap round(0.02 W),
\* and bars and gaps span 3 round(0.30 W) + 2 round(0.02 W) pixels.
C13_RoundedWidths ==
    tb # <<>> =>
        LET self == tb[1]
            W    == self.shape[2]
        IN /\ \A i \in 1..3 : BarWidth(self, i) = RoundRatio(30, W)
           /\ \A i \in 1..2 : GapAfter(self, i) = RoundRatio(2, W)
           /\ Span(self) = 3 * RoundRatio(30, W) + 2 * RoundRatio(2, W)

\* k is the integer part of pct * n / 100
IsFloorOf(k, pct, n) == 100 * k <= pct * n /\ pct * n < 100 * (k + 1)

\* C13, amended: every bar is floor(0.30 W) wide, every gap floor(0.02 W),
\* and bars and gaps span 3 floor(0.30 W) + 2 floor(0.02 W) pixels.
C13_FlooredWidths ==
    tb # <<>> =>
        LET self == tb[1]
            W    == self.shape[2]
        IN /\ \A i \in 1..3 : IsFloorOf(BarWidth(self, i), 30, W)
           /\ \A i \in 1..2 : IsFloorOf(GapAfter(self, i), 2, W)
           /\ \E b, g \in 0..W :
                  /\ IsFloorOf(b, 30, W)
                  /\ IsFloorOf(g, 2, W)
                  /\ Span(self) = 3 * b + 2 * g

\* W = 99: 0.30 W = 29.7 and 0.02 W = 1.98, the bars are 29 wide, the gaps 1
C13_Witness ==
    /\ tb # <<>>
    /\ tb[1].shape[2] = 99
    /\ BarWidth(tb[1], 1) = 29
    /\ GapAfter(tb[1], 1) = 1

\* C14: a run whose clip is too short for a threshold does not complete:
\* when the traversal completes, the clip had a frame of index 100.
C14_ShortClipFails ==
    tb_pc = "done" => clip_frames > 100

\* C19: the target is read once, at timestamp 0, when the instance is made;
\* a pasted bar shows the crop of that frame at every index; the array
\* get_frame returned is as it was; the instance never changes.
C19_State ==
    /\ tb_pc # "start" => target_reads = <<0>>
    /\ tb # <<>> =>
           \A i \in 1..BARS :
               tb[1].frame_crops[i] =
                   Crop(Frame("target", 0), tb[1].y1, tb[1].y2, tb[1].xs[i])
    /\ tb_out # <<>> =>
           LET src == Frame("source", tb_t[1]) IN
           /\ \A i \in 1..BARS :
                  tb_out[1].given[i] = Crop(src, tb[1].y1, tb[1].y2, tb[1].xs[i])
           /\ \A i \in 1..BARS :
                  tb_out[1].px[i] \in {tb[1].frame_crops[i], tb_out[1].given[i]}

C19_Step == tb # <<>> => tb' = tb /\ target_reads' = target_reads

C19_TargetReadOnce == []C19_State /\ [][C19_Step]_vars

\* the last frame of a clip of 101 frames was written, with all three bars
C19_Witness ==
    /\ tb_pc = "writing"
    /\ tb_calls = 101
    /\ tb_out # <<>>
    /\ PastedBars(tb_out[1]) = {1, 2, 3}
    /\ target_reads = <<0>>

\* C20: the bars have equal width, are in left-to-right order one gap width
\* apart without overlap, lie inside [0, W), have left and right margins
\* that differ by at most one pixel, and share the band y1 <= y2 <= H.
C20_BarsInsideFrame ==
    tb # <<>> =>
        LET self  == tb[1]
            H     == self.shape[1]
            W     == self.shape[2]
            left  == self.xs[1][1]
            right == W - self.xs[BARS][2]
        IN /\ \A i, j \in 1..3 : BarWidth(self, i) = BarWidth(self, j)
           /\ \A i \in 1..3 : self.xs[i][1] <= self.xs[i][2]
           /\ \A i \in 1..2 : self.xs[i][2] <= self.xs[i + 1][1]
           /\ \A i \in 1..2 : GapAfter(self, i) = GapAfter(self, 1)
           /\ \A i \in 1..3 : 0 <= self.xs[i][1] /\ self.xs[i][2] <= W
           /\ right - left \in {-1, 0, 1}
           /\ 0 <= self.y1 /\ self.y1 <= self.y2 /\ self.y2 <= H

\* a frame whose margins differ by one pixel, with bars and gaps not empty
C20_Witness ==
    /\ tb # <<>>
    /\ BarWidth(tb[1], 1) > 0
    /\ GapAfter(tb[1], 1) > 0
    /\ (tb[1].shape[2] - tb[1].xs[BARS][2]) - tb[1].xs[1][1] = 1
    /\ tb[1].y1 < tb[1].y2

\* ------------------------------------------------------------------------
\* Properties of edit
\* ------------------------------------------------------------------------
\* C15: when edit ends on an unknown filter or effect name, nothing was
\* processed before: no filter or effect unit was instantiated and no
\* transform was attached to the clip.
C15_NameErrorBeforeProcessing ==
    e_pc = "exit1" /\ e_error.kind \in {"invalid_filters", "invalid_effects"} =>
        /\ filter_queue = <<>>
        /\ effect_queue = <<>>
        /\ processed_clip = <<>>

\* ------------------------------------------------------------------------
\* Properties of effect instances
\* ------------------------------------------------------------------------
\* a pipeline of the given names run alone for n frames: its instances and
\* the frames it returned
RECURSIVE RunAlone(_, _, _, _)
RunAlone(instances, k, n, sofar) ==
    IF k >= n THEN [instances |-> instances, outs |-> sofar]
    ELSE LET r == effect_apply_all(instances, 1, SourceClip[k], SourceClip, k, <<>>)
         IN RunAlone(r.instances, k + 1, n, Append(sofar, r.frame))

\* C16: every call of apply_effects makes one new instance per name, also
\* for a name listed twice; however the calls to the pipelines interleave,
\* the state of every instance and the frames every pipeline returned are
\* those of the pipeline run alone.
C16_PrivateState ==
    /\ \A p, q \in 1..Len(iso_pipes) :
           \A i \in 1..Len(iso_pipes[p]), j \in 1..Len(iso_pipes[q]) :
               <<p, i>> # <<q, j>> => iso_pipes[p][i] # iso_pipes[q][j]
    /\ \A p \in 1..Len(iso_pipes) :
           /\ Len(iso_pipes[p]) = Len(iso_names[p])
           /\ LET alone == RunAlone([i \in 1..Len(iso_names[p]) |-> NewEffect(iso_names[p][i])],
                                    0, iso_calls[p], <<>>)
              IN /\ iso_outs[p] = alone.outs
                 /\ \A i \in 1..Len(iso_pipes[p]) :
                        iso_store[iso_pipes[p][i]] = alone.instances[i]

\* two pipelines, the first listing stop_motion twice and the second once,
\* called 4 and 3 times
C16_Witness ==
    /\ iso_names = <<<<"stop_motion", "stop_motion">>, <<"stop_motion">>>>
    /\ iso_calls = <<4, 3>>


\* ------------------------------------------------------------------------
\* Properties of merge: the documented example, the error reported
\* ------------------------------------------------------------------------
\* C17: the run of the documented example, two clips and the binding
\* crossfade@2, does not end with an error: it passes validation and
\* resolution and goes on to concatenation.
C17_DocumentedExampleValid ==
    Len(clips) = 2 /\ transitions = <<<<"crossfade", "@", "2">>>>
        => pc # "exit1" /\ error = "none"

\* binding b obeys the four junction rules: format, number, bounds, duplicate
ObeysJunctionRules(b) ==
    LET tok == transitions[b] IN
    /\ FirstAt(tok) <= Len(tok)
    /\ AllDigits(IndexPortion(tok))
    /\ 1 <= int(IndexPortion(tok)) /\ int(IndexPortion(tok)) < Len(clips)
    /\ \A a \in 1..(b - 1) :
           int(IndexPortion(transitions[a])) # int(IndexPortion(tok))

\* C18 as stated: the error reported belongs to the first binding, in caller
\* order, that violates any of the five rules.
C18_FirstInvalidOfFive ==
    pc = "exit1" =>
        /\ error_binding \in 1..Len(transitions)
        /\ ~ObeysRules(error_binding)
        /\ \A a \in 1..(error_binding - 1) : ObeysRules(a)

\* C18, amended: the error reported belongs to the first binding that
\* violates one of the four junction rules, if there is one; an unknown
\* transition name is reported only when every binding obeys those four
\* rules, and then it is the first unknown name in caller order.
C18_JunctionRulesFirst ==
    pc = "exit1" =>
        /\ error_binding \in 1..Len(transitions)
        /\ error \in ValidationErrors =>
               /\ ~ObeysJunctionRules(error_binding)
               /\ \A a \in 1..(error_binding - 1) : ObeysJunctionRules(a)
        /\ error \notin ValidationErrors =>
               /\ error = "invalid_transition"
               /\ \A a \in 1..Len(transitions) : ObeysJunctionRules(a)
               /\ NamePortion(transitions[error_binding]) \notin TRANSITION_REGISTRY
               /\ \A a \in 1..(error_binding - 1) :
                      NamePortion(transitions[a]) \in TRANSITION_REGISTRY

\* 3 clips, [crossfade@1, three_blocks@a]: the error reported is the
\* not-a-number error of the second binding
C18_Witness ==
    /\ Len(clips) = 3
    /\ transitions = <<<<"crossfade", "@", "1">>, <<"three_blocks", "@", "a">>>>
    /\ pc = "exit1"
    /\ error = "not_a_number"
    /\ error_binding = 2

\* ------------------------------------------------------------------------
\* Properties of the effects' frame index
\* ------------------------------------------------------------------------
\* C21: after n calls the index of stop_motion and of photo_movement is
\* n - 1 whatever timestamps were passed (repeated ones included), and two
\* traversals that pass other timestamps but get the same frames take the
\* same branches, return the same frames and leave the same state.
C21_IndexFromCallOrder ==
    ts_inst # <<>> =>
        /\ \A s \in 1..2 : ts_inst[s].last_index = Len(ts_tA) - 1
        /\ ts_outs[1] = ts_outs[2]
        /\ ts_branches[1] = ts_branches[2]
        /\ ts_inst[1] = ts_inst[2]

\* stop_motion called with timestamp 2 twice and then with 0, while the
\* other traversal got frame 0 at timestamp 1; a frame was replaced
C21_Witness ==
    /\ ts_inst # <<>>
    /\ ts_inst[1].name = "stop_motion"
    /\ ts_tA = <<2, 2, 0>>
    /\ ts_tB = <<1>>
    /\ ts_branches[1][3] = "replace"


C22_JunctionsInsideList ==
    /\ pc # "crash"
    /\ error # "IndexError"
    /\ \A b \in 1..Len(transitions) :
           Accepted(b) =>
               LET j == int(IndexPortion(transitions[b])) - 1
               IN 0 <= j /\ j + 1 <= Len(clips) - 1
    /\ \A a \in 1..Len(transition_classes) :
           LET j == transition_classes[a][2]
           IN 0 <= j /\ j + 1 <= Len(clips) - 1

\* 3 clips, the bindings of junction 2 and then of junction 1 were both
\* applied and the result saved
C22_Witness ==
    /\ pc = "done"
    /\ Len(clips) = 3
    /\ transitions = <<<<"three_blocks", "@", "2">>, <<"three_blocks", "@", "1">>>>
    /\ applied = 2


\* ------------------------------------------------------------------------
\* Properties of merged three_blocks transitions
\* ------------------------------------------------------------------------
\* the junctions the bindings name
BoundJunctions == {int(IndexPortion(transitions[b])) : b \in 1..Len(transitions)}

\* the frame at tick t of the p-th clip of the result, told from the set of
\* bound junctions alone: the file's frame, with the bars due at the index
\* of t taken from frame 0 of the next file if junction p is bound
MergedFrame(p, t) ==
    [px   |-> [i \in 1..BARS |->
                 IF p \in BoundJunctions /\ i \in BarsDue(t \div SubTicks)
                 THEN Crop(Frame(p + 1, 0), ClipGeometry.y1, ClipGeometry.y2,
                           ClipGeometry.xs[i])
                 ELSE Crop(Frame(p, t), ClipGeometry.y1, ClipGeometry.y2,
                           ClipGeometry.xs[i])],
     rest |-> Frame(p, t)]

\* C23: the frames of the concatenated clips depend on the set of
\* three_blocks bindings only, not on their order: the bars of clip j are
\* the crops of frame 0 of the file of clip j + 1, whether or not clip
\* j + 1 had been given its own transition before.
C23_OrderIndependent ==
    pc \in {"save", "done"} =>
        \A p \in 1..Len(concat_clip[1].clips), t \in ClipTicks(MaxFrames) :
            clip_get_frame(concat_clip[1].clips[p], t) = MergedFrame(p, t)

\* 3 clips, junction 2 bound before junction 1: the target of the first
\* clip's transition carries a transition itself
C23_Witness ==
    /\ pc = "done"
    /\ Len(clips) = 3
    /\ BoundJunctions = {1, 2}
    /\ clips[1].fx # <<>>
    /\ clips[1].fx[1].transition_to.fx # <<>>

====
